---- MODULE Spec2Model ----
(***************************************************************************)
(* TrasMaTech Electricity: the configuration wizard (config_flow.py), the  *)
(* entry setup/unload (__init__.py, sensor.py), the update coordinator and *)
(* the three sensor projections (sensor.py).                               *)
(*                                                                         *)
(* JSON values are trees: a function from paths (sequences of keys, <<>>   *)
(* the root) to nodes [t, n], t the JSON type and n the number in          *)
(* thousandths (0 when t is not "num").  Python's None is JSON null.       *)
(***************************************************************************)
EXTENDS Integers, Sequences, FiniteSets, TLC

VARIABLES
    enFile,       \* translations/en.json, as load_providers finds it
    entries,      \* the config entries the wizard has created, in order
    flowResult,   \* what the latest async_step_user returned or raised
    hassData,     \* the entries held in hass.data[DOMAIN]
    setup,        \* per entry: "not_loaded", "setup_retry" or "loaded"
    setupRaised,  \* per entry: the signal its latest sensor setup raised
    data,         \* per entry: its coordinator's data (the snapshot)
    entities,     \* per entry: the unique ids handed to async_add_entities
    last          \* the latest update or read (see NoOp)

vars == <<enFile, entries, flowResult, hassData, setup, setupRaised, data,
          entities, last>>

(***************************************************************************)
(* JSON trees and the Python operations the code applies to them.          *)
(***************************************************************************)
Obj == [t |-> "obj", n |-> 0]
Null == [t |-> "null", n |-> 0]
Num(k) == [t |-> "num", n |-> k]

\* coordinator.data before the first successful refresh
None == (<<>> :> Null)

TypeAt(doc, p) == IF p \in DOMAIN doc THEN doc[p].t ELSE "absent"

Children(doc, p) ==
    {q \in DOMAIN doc : Len(q) = Len(p) + 1 /\ SubSeq(q, 1, Len(p)) = p}

\* bool(x): None and 0 and {} are false
Truthy(doc, p) ==
    CASE TypeAt(doc, p) = "obj" -> Children(doc, p) # {}
      [] TypeAt(doc, p) = "num" -> doc[p].n # 0
      [] OTHER -> FALSE

\* round-half-even of n/d, the way round() settles an exact tie
RoundDiv(n, d) ==
    LET q == n \div d
        r == n % d
    IN  IF 2 * r < d THEN q
        ELSE IF 2 * r > d THEN q + 1
        ELSE IF q % 2 = 0 THEN q ELSE q + 1

\* what a read of `state` ends with: a value (in hundredths), None, or an exception
RValue(h) == [kind |-> "value", v |-> h, exc |-> ""]
RNone == [kind |-> "None", v |-> 0, exc |-> ""]
RRaise(e) == [kind |-> "raise", v |-> 0, exc |-> e]

\* round(x, 2) of the node at p; den is 1000 for x itself, 1000000 for x / 1000
Round2(doc, p, den) ==
    IF TypeAt(doc, p) = "num" THEN RValue(RoundDiv(doc[p].n * 100, den))
    ELSE RRaise("TypeError")

\* x[k1][k2]...: the exception the chain of subscripts raises, or "" and the path reached
RECURSIVE Subscript(_, _, _)
Subscript(doc, p, keys) ==
    IF keys = <<>> THEN [exc |-> "", path |-> p]
    ELSE IF TypeAt(doc, p) # "obj" THEN [exc |-> "TypeError", path |-> p]
    ELSE IF Append(p, Head(keys)) \notin DOMAIN doc THEN [exc |-> "KeyError", path |-> p]
    ELSE Subscript(doc, Append(p, Head(keys)), Tail(keys))

(***************************************************************************)
(* The sensor projections.                                                 *)
(***************************************************************************)
Phases == <<"phaseOne", "phaseTwo", "phaseThree">>
Measurements == <<"voltage", "current">>
ValueTypes == <<"min", "max", "avg">>

TotalUsageSensor ==
    [shape |-> "total", phase |-> "", measurement |-> "", sensor_type |-> "", unit |-> ""]
PowerSensor(sensor_type, unit) ==
    [shape |-> "power", phase |-> "", measurement |-> "", sensor_type |-> sensor_type,
     unit |-> unit]
PhaseSensor(phase, measurement, value_type) ==
    [shape |-> "phase", phase |-> phase, measurement |-> measurement,
     sensor_type |-> value_type, unit |-> ""]

\* the list comprehension of async_setup_entry, in its order
PhaseSensorList ==
    [i \in 1..18 |-> PhaseSensor(Phases[((i - 1) \div 6) + 1],
                                 Measurements[(((i - 1) \div 3) % 2) + 1],
                                 ValueTypes[((i - 1) % 3) + 1])]

SensorList ==
    <<TotalUsageSensor,
      PowerSensor("min", "W"), PowerSensor("max", "W"), PowerSensor("avg", "W"),
      PowerSensor("min", "kW"), PowerSensor("max", "kW"), PowerSensor("avg", "kW")>>
    \o PhaseSensorList

Sensors == {SensorList[i] : i \in 1..Len(SensorList)}

Lower(unit) == IF unit = "W" THEN "w" ELSE IF unit = "kW" THEN "kw" ELSE unit

UniqueId(meter_id, s) ==
    CASE s.shape = "total" ->
           "electricity_meter_" \o ToString(meter_id) \o "_energy_total_usage"
      [] s.shape = "power" ->
           "electricity_meter_" \o ToString(meter_id) \o "_power_" \o s.sensor_type
             \o "_" \o Lower(s.unit)
      [] OTHER ->
           "electricity_meter_" \o ToString(meter_id) \o "_" \o s.phase \o "_"
             \o s.measurement \o "_" \o s.sensor_type

TotalUsageState(d) ==
    IF ~Truthy(d, <<>>) THEN RNone
    ELSE IF TypeAt(d, <<>>) # "obj" THEN RRaise("TypeError")
    ELSE IF <<"cumulativeActivePower">> \notin DOMAIN d THEN RNone
    ELSE LET w == Subscript(d, <<>>, <<"cumulativeActivePower", "input", "max">>)
         IN  IF w.exc # "" THEN RRaise(w.exc) ELSE Round2(d, w.path, 1000)

PowerState(d, sensor_type, unit) ==
    IF ~Truthy(d, <<>>) THEN RNone
    ELSE IF TypeAt(d, <<>>) # "obj" THEN RRaise("TypeError")
    ELSE IF <<"activePower">> \notin DOMAIN d THEN RNone
    ELSE LET w == Subscript(d, <<>>, <<"activePower", "input">>)
             v == Append(w.path, sensor_type)
         IN  IF w.exc # "" THEN RRaise(w.exc)
             ELSE IF ~Truthy(d, w.path) THEN RNone
             ELSE IF TypeAt(d, w.path) # "obj" THEN RRaise("AttributeError")
             ELSE IF TypeAt(d, v) \in {"absent", "null"} THEN RNone
             ELSE IF unit = "kW" THEN Round2(d, v, 1000000)
             ELSE Round2(d, v, 1000)

PhaseStateZeroForMeasurement(d, phase, measurement, value_type) ==
    IF ~Truthy(d, <<>>) THEN RNone
    ELSE IF TypeAt(d, <<>>) # "obj" THEN RRaise("TypeError")
    ELSE IF <<phase>> \notin DOMAIN d THEN RNone
    ELSE IF TypeAt(d, <<phase>>) # "obj" THEN RRaise("TypeError")
    ELSE IF <<phase, measurement>> \notin DOMAIN d THEN RValue(0)
    ELSE IF TypeAt(d, <<phase, measurement>>) # "obj" THEN RRaise("AttributeError")
    ELSE IF <<phase, measurement, value_type>> \notin DOMAIN d THEN RValue(0)
    ELSE Round2(d, <<phase, measurement, value_type>>, 1000)

PhaseState(d, phase, measurement, value_type) ==
    IF ~Truthy(d, <<>>) THEN RNone
    ELSE IF TypeAt(d, <<>>) # "obj" THEN RRaise("TypeError")
    ELSE IF <<phase>> \notin DOMAIN d THEN RNone
    ELSE IF TypeAt(d, <<phase>>) # "obj" THEN RRaise("TypeError")
    ELSE IF <<phase, measurement>> \notin DOMAIN d THEN RNone
    ELSE IF TypeAt(d, <<phase, measurement>>) # "obj" THEN RRaise("AttributeError")
    ELSE IF <<phase, measurement, value_type>> \notin DOMAIN d THEN RValue(0)
    ELSE Round2(d, <<phase, measurement, value_type>>, 1000)

SensorState(s, d) ==
    CASE s.shape = "total" -> TotalUsageState(d)
      [] s.shape = "power" -> PowerState(d, s.sensor_type, s.unit)
      [] OTHER -> PhaseState(d, s.phase, s.measurement, s.sensor_type)

(***************************************************************************)
(* The update coordinator.                                                 *)
(* A datetime is [minute, second, microsecond], minute counting the whole  *)
(* UTC minutes since an origin; strftime("%Y-%m-%dT%H:%M:%SZ") keeps the   *)
(* minute and the second and drops the microsecond.                        *)
(***************************************************************************)
HTTP_OK == 200

Replace(dt, second, microsecond) ==
    [dt EXCEPT !.second = second, !.microsecond = microsecond]

MinusMinutes(dt, k) == [dt EXCEPT !.minute = @ - k]

Strftime(dt) == [minute |-> dt.minute, second |-> dt.second]

EndTimeCurrentMinute(now) == Replace(now, 0, 0)

EndTime(now) == MinusMinutes(Replace(now, 0, 0), 1)

StartTime(now) == MinusMinutes(EndTime(now), 1)

\* f"{api_url}telemetry/{meter_id}/{start}/{end}/1"
Url(api_url, meter_id, now) ==
    [api_url |-> api_url, meter_id |-> meter_id,
     start |-> Strftime(StartTime(now)), end |-> Strftime(EndTime(now)), last |-> 1]

\* the exception classes that derive from aiohttp.ClientError: connection
\* errors, the socket timeouts (ServerTimeoutError) and the wrong content
\* type of response.json(); not asyncio.TimeoutError, which the total
\* timeout raises, nor json.JSONDecodeError
IsClientError(exc) ==
    exc \in {"ClientConnectorError", "ServerDisconnectedError", "ServerTimeoutError",
             "ContentTypeError"}

TryFetchLastElement(http) ==
    IF http.transport # "" THEN [exc |-> http.transport, value |-> None]
    ELSE IF http.status # HTTP_OK THEN [exc |-> "UpdateFailed", value |-> None]
    ELSE IF http.decode # "" THEN [exc |-> http.decode, value |-> None]
    ELSE IF ~http.body.truthy \/ http.body.t # "list" \/ Len(http.body.items) = 0
         THEN [exc |-> "UpdateFailed", value |-> None]
    ELSE [exc |-> "", value |-> http.body.items[Len(http.body.items)]]

\* what the try block of _async_update_data ends with: the exception it
\* raises ("" when it returns), and the value it returns
TryFetch(http) ==
    IF http.transport # "" THEN [exc |-> http.transport, value |-> None]
    ELSE IF http.status # HTTP_OK THEN [exc |-> "UpdateFailed", value |-> None]
    ELSE IF http.decode # "" THEN [exc |-> http.decode, value |-> None]
    ELSE IF \/ ~http.body.truthy
            \/ http.body.t # "list"
            \/ Len(http.body.items) = 0
         THEN [exc |-> "UpdateFailed", value |-> None]
    ELSE [exc |-> "", value |-> http.body.items[1]]

\* the except clause
Except(exc) == IF IsClientError(exc) THEN "UpdateFailed" ELSE exc

AsyncUpdateData(entry, now, http) ==
    LET r == TryFetch(http)
    IN  [url |-> Url(entry.api_url, entry.meter_id, now),
         raised |-> Except(r.exc),
         value |-> r.value]

RefreshedDataCleared(old, r) == IF r.raised = "" THEN r.value ELSE None

\* coordinator.data after a refresh that ended with r: the host assigns the
\* returned value (self.data = await self._async_update_data()), and leaves
\* data as it was when the update raised, whatever it raised
RefreshedData(old, r) == IF r.raised = "" THEN r.value ELSE old

(***************************************************************************)
(* The configuration wizard.                                               *)
(* The translations file is [open, parse, top, config, providers]: the     *)
(* exception open() raises ("" for none), the exception json.loads raises, *)
(* the JSON type of the top level and of its "config" member, and the      *)
(* "providers" member, a function from provider keys to [keys, name,       *)
(* api_url] with keys the members that provider has.                       *)
(***************************************************************************)
NoProviders == [k \in {} |-> [keys |-> {}, name |-> "", api_url |-> ""]]

\* load_providers: the exception that escapes it ("" for none) and the catalog
LoadProviders(file) ==
    LET exc == IF file.open # "" THEN file.open
               ELSE IF file.parse # "" THEN file.parse
               ELSE IF file.top # "obj" THEN "AttributeError"
               ELSE IF file.config \notin {"absent", "obj"} THEN "AttributeError"
               ELSE ""
    IN  IF exc \in {"FileNotFoundError", "KeyError", "JSONDecodeError"}
            THEN [exc |-> "", providers |-> NoProviders]
        ELSE IF exc # "" THEN [exc |-> exc, providers |-> NoProviders]
        ELSE IF file.config = "absent" THEN [exc |-> "", providers |-> NoProviders]
        ELSE [exc |-> "", providers |-> file.providers]

NoInput == [present |-> FALSE, provider |-> "", token |-> "", meter_id |-> 0]

NoEntry == [api_url |-> "", provider |-> "", token |-> "", meter_id |-> 0, title |-> ""]

FlowNone == [type |-> "none", base |-> "", exc |-> "", data |-> NoEntry]
FlowForm(base) == [type |-> "form", base |-> base, exc |-> "", data |-> NoEntry]
FlowRaise(exc) == [type |-> "raise", base |-> "", exc |-> exc, data |-> NoEntry]
FlowCreateEntry(entry) == [type |-> "create_entry", base |-> "", exc |-> "", data |-> entry]

\* async_step_user: what it returns, or the exception that escapes it
AsyncStepUser(file, user_input) ==
    LET loaded == LoadProviders(file)
        providers_data == loaded.providers
        keys == DOMAIN providers_data
    IN  IF loaded.exc # "" THEN FlowRaise(loaded.exc)
        ELSE IF keys = {} THEN FlowForm("no_providers")
        ELSE IF \E k \in keys : {"api_url", "name"} \ providers_data[k].keys # {}
            THEN FlowRaise("KeyError")
        ELSE IF user_input.present
            THEN FlowCreateEntry(
                   [api_url |-> IF user_input.provider \in keys
                                THEN providers_data[user_input.provider].api_url ELSE "",
                    provider |-> user_input.provider,
                    token |-> user_input.token,
                    meter_id |-> user_input.meter_id,
                    title |-> IF user_input.provider \in keys
                              THEN providers_data[user_input.provider].name
                              ELSE "Unknown"])
        ELSE FlowForm("")

(***************************************************************************)
(* Entry setup: __init__.async_setup_entry forwards to the sensor          *)
(* platform, whose async_setup_entry makes a coordinator, awaits its first *)
(* refresh and adds the 25 entities.                                       *)
(***************************************************************************)
SensorSetupEntryAddsAnyway(meter_id, r) ==
    [raised |-> IF r.raised # "" THEN "ConfigEntryNotReady" ELSE "",
     added |-> [i \in 1..Len(SensorList) |-> UniqueId(meter_id, SensorList[i])]]

\* sensor.async_setup_entry after a first refresh that ended with r: the
\* signal it raises ("" for none) and the unique ids it hands to
\* async_add_entities.  The host's async_config_entry_first_refresh catches
\* whatever the update raised and raises ConfigEntryNotReady itself; the
\* except clause maps an UpdateFailed to the same signal.
SensorSetupEntry(meter_id, r) ==
    IF r.raised # "" THEN [raised |-> "ConfigEntryNotReady", added |-> <<>>]
    ELSE [raised |-> "",
          added |-> [i \in 1..Len(SensorList) |-> UniqueId(meter_id, SensorList[i])]]

(***************************************************************************)
(* Inputs: the snapshots, HTTP outcomes, clock readings, translations      *)
(* files and wizard submissions the model draws from.  Numbers are in      *)
(* thousandths; none is a decimal tie that binary floating point cannot    *)
(* represent exactly.                                                      *)
(***************************************************************************)
MaxEntries == 2

MaxMeterId == 2

SnapFull ==
    (<<>> :> Obj)
    @@ (<<"cumulativeActivePower">> :> Obj)
    @@ (<<"cumulativeActivePower", "input">> :> Obj)
    @@ (<<"cumulativeActivePower", "input", "max">> :> Num(12345678))
    @@ (<<"activePower">> :> Obj)
    @@ (<<"activePower", "input">> :> Obj)
    @@ (<<"activePower", "input", "min">> :> Num(1200000))
    @@ (<<"activePower", "input", "max">> :> Num(1500000))
    @@ (<<"activePower", "input", "avg">> :> Num(1234000))
    @@ (<<"phaseOne">> :> Obj)
    @@ (<<"phaseOne", "voltage">> :> Obj)
    @@ (<<"phaseOne", "voltage", "min">> :> Num(229100))
    @@ (<<"phaseOne", "voltage", "max">> :> Num(231900))
    @@ (<<"phaseOne", "voltage", "avg">> :> Num(230456))
    @@ (<<"phaseOne", "current">> :> Obj)
    @@ (<<"phaseOne", "current", "avg">> :> Num(5125))
    @@ (<<"phaseTwo">> :> Obj)
    @@ (<<"phaseTwo", "voltage">> :> Obj)
    @@ (<<"phaseTwo", "voltage", "max">> :> Num(-1234))

\* {"phaseOne": {"voltage": {"avg": 230.456}}}
SnapPhaseOne ==
    (<<>> :> Obj)
    @@ (<<"phaseOne">> :> Obj)
    @@ (<<"phaseOne", "voltage">> :> Obj)
    @@ (<<"phaseOne", "voltage", "avg">> :> Num(230456))

\* {"activePower": {"input": {"max": 1500}}}
SnapPower ==
    (<<>> :> Obj)
    @@ (<<"activePower">> :> Obj)
    @@ (<<"activePower", "input">> :> Obj)
    @@ (<<"activePower", "input", "max">> :> Num(1500000))

\* {"cumulativeActivePower": {}, "activePower": {}}
SnapNoInput ==
    (<<>> :> Obj)
    @@ (<<"cumulativeActivePower">> :> Obj)
    @@ (<<"activePower">> :> Obj)

\* {"cumulativeActivePower": {"input": {"max": null}},
\*  "activePower": {"input": {"avg": null, "min": 7}},
\*  "phaseOne": null, "phaseTwo": {"voltage": null},
\*  "phaseThree": {"current": {"max": null}}}
SnapNulls ==
    (<<>> :> Obj)
    @@ (<<"cumulativeActivePower">> :> Obj)
    @@ (<<"cumulativeActivePower", "input">> :> Obj)
    @@ (<<"cumulativeActivePower", "input", "max">> :> Null)
    @@ (<<"activePower">> :> Obj)
    @@ (<<"activePower", "input">> :> Obj)
    @@ (<<"activePower", "input", "avg">> :> Null)
    @@ (<<"activePower", "input", "min">> :> Num(7000))
    @@ (<<"phaseOne">> :> Null)
    @@ (<<"phaseTwo">> :> Obj)
    @@ (<<"phaseTwo", "voltage">> :> Null)
    @@ (<<"phaseThree">> :> Obj)
    @@ (<<"phaseThree", "current">> :> Obj)
    @@ (<<"phaseThree", "current", "max">> :> Null)

\* {}
SnapEmpty == (<<>> :> Obj)

\* 5
SnapNumber == (<<>> :> Num(5000))

\* the JSON objects among the list elements
ObjectSnapshots == {SnapFull, SnapPhaseOne, SnapPower, SnapNoInput, SnapNulls, SnapEmpty}

\* what a list element of a response can be: an object, a number or null
Snapshots == ObjectSnapshots \cup {SnapNumber, None}

ListBody(items) == [t |-> "list", truthy |-> Len(items) > 0, items |-> items]
OtherBody(t, truthy) == [t |-> t, truthy |-> truthy, items |-> <<>>]

Bodies ==
    {ListBody(<<d>>) : d \in Snapshots}
    \cup {ListBody(<<SnapFull, SnapPhaseOne>>), ListBody(<<SnapPhaseOne, SnapFull>>),
          ListBody(<<SnapPower, SnapNulls, SnapFull>>), ListBody(<<>>)}
    \cup {OtherBody("null", FALSE), OtherBody("obj", FALSE), OtherBody("obj", TRUE),
          OtherBody("num", FALSE), OtherBody("num", TRUE)}

Response(transport, status, decode, body) ==
    [transport |-> transport, status |-> status, decode |-> decode, body |-> body]

HttpOutcomes ==
    {Response(x, 0, "", OtherBody("null", FALSE)) :
        x \in {"ClientConnectorError", "ServerTimeoutError", "TimeoutError"}}
    \cup {Response("", st, "", ListBody(<<SnapFull>>)) : st \in {404, 500}}
    \cup {Response("", 200, x, OtherBody("null", FALSE)) :
            x \in {"ContentTypeError", "JSONDecodeError"}}
    \cup {Response("", 200, "", b) : b \in Bodies}

\* the outcomes the wizard's specification draws a first refresh from
SetupOutcomes ==
    {Response("", 200, "", ListBody(<<SnapFull>>)),
     Response("ClientConnectorError", 0, "", OtherBody("null", FALSE)),
     Response("", 500, "", OtherBody("null", FALSE))}

Nows ==
    {[minute |-> 5, second |-> 0, microsecond |-> 0],
     [minute |-> 5, second |-> 59, microsecond |-> 999999],
     [minute |-> 6, second |-> 0, microsecond |-> 1],
     [minute |-> 10, second |-> 30, microsecond |-> 500000]}

Provider(name, api_url) == [keys |-> {"name", "api_url"}, name |-> name, api_url |-> api_url]

Catalog ==
    ("alpha" :> Provider("Alpha Energy", "https://alpha.example/api/"))
    @@ ("beta" :> Provider("Beta Power", "https://beta.example/api/"))

File(open, parse, top, config, providers) ==
    [open |-> open, parse |-> parse, top |-> top, config |-> config,
     providers |-> providers]

FileGood == File("", "", "obj", "obj", Catalog)

Files ==
    {FileGood,
     File("FileNotFoundError", "", "obj", "absent", NoProviders),
     File("PermissionError", "", "obj", "absent", NoProviders),
     File("", "JSONDecodeError", "obj", "absent", NoProviders),
     File("", "", "list", "absent", NoProviders),
     File("", "", "obj", "absent", NoProviders),
     File("", "", "obj", "null", NoProviders),
     File("", "", "obj", "obj", NoProviders),
     File("", "", "obj", "obj",
          ("alpha" :> [keys |-> {"name"}, name |-> "Alpha Energy", api_url |-> ""]))}

\* the submissions the form's schema lets through: a listed provider, a
\* token, a meter id of at least 1
UserInputs ==
    {[present |-> TRUE, provider |-> p, token |-> "secret", meter_id |-> m] :
        p \in {"alpha", "beta"}, m \in 1..MaxMeterId}

(***************************************************************************)
(* State and actions.                                                      *)
(***************************************************************************)
\* `last` records the latest operation on an entry: a coordinator update
\* (op "setup" for the first refresh, "poll" for a scheduled one) with its
\* clock reading, HTTP outcome, URL and how _async_update_data ended, or a
\* read of an entity's state with its result
NoOp ==
    [op |-> "none", entry |-> 0,
     now |-> [minute |-> 0, second |-> 0, microsecond |-> 0],
     http |-> Response("", 0, "", OtherBody("null", FALSE)),
     url |-> Url("", 0, [minute |-> 2, second |-> 0, microsecond |-> 0]),
     raised |-> "", value |-> None,
     sensor |-> TotalUsageSensor, unique_id |-> "", result |-> RNone]

Call(op, e, now, http, r) ==
    [NoOp EXCEPT !.op = op, !.entry = e, !.now = now, !.http = http, !.url = r.url,
                 !.raised = r.raised, !.value = r.value]

ReadOp(e, sensor, unique_id, result) ==
    [NoOp EXCEPT !.op = "read", !.entry = e, !.sensor = sensor,
                 !.unique_id = unique_id, !.result = result]

\* the wizard is opened (user_input absent) or submitted
StepUser(user_input) ==
    LET res == AsyncStepUser(enFile, user_input)
    IN  /\ Len(entries) < MaxEntries
        /\ flowResult' = res
        /\ IF res.type = "create_entry"
           THEN /\ entries' = Append(entries, res.data)
                /\ setup' = Append(setup, "not_loaded")
                /\ setupRaised' = Append(setupRaised, "")
                /\ data' = Append(data, None)
                /\ entities' = Append(entities, <<>>)
           ELSE UNCHANGED <<entries, setup, setupRaised, data, entities>>
        /\ UNCHANGED <<enFile, hassData, last>>

\* the host sets the entry up: hass.data is filled, the platform makes a
\* fresh coordinator and awaits its first refresh
SetupEntry(e, now, http) ==
    LET r == AsyncUpdateData(entries[e], now, http)
        s == SensorSetupEntry(entries[e].meter_id, r)
    IN  /\ setup[e] # "loaded"
        /\ hassData' = hassData \cup {e}
        /\ last' = Call("setup", e, now, http, r)
        /\ data' = [data EXCEPT ![e] = RefreshedData(None, r)]
        /\ setupRaised' = [setupRaised EXCEPT ![e] = s.raised]
        /\ setup' = [setup EXCEPT ![e] = IF s.raised = "" THEN "loaded" ELSE "setup_retry"]
        /\ entities' = [entities EXCEPT ![e] = s.added]
        /\ UNCHANGED <<enFile, entries, flowResult>>

\* the scheduled refresh of a loaded entry's coordinator
Poll(e, now, http) ==
    LET r == AsyncUpdateData(entries[e], now, http)
    IN  /\ setup[e] = "loaded"
        /\ last' = Call("poll", e, now, http, r)
        /\ data' = [data EXCEPT ![e] = RefreshedData(data[e], r)]
        /\ UNCHANGED <<enFile, entries, flowResult, hassData, setup, setupRaised,
                       entities>>

\* the host reads the state of one entity of a loaded entry
Read(e, i) ==
    /\ setup[e] = "loaded"
    /\ last' = ReadOp(e, SensorList[i], entities[e][i],
                       SensorState(SensorList[i], data[e]))
    /\ UNCHANGED <<enFile, entries, flowResult, hassData, setup, setupRaised, data,
                   entities>>

\* async_unload_entry: the platform unloads, its entities and coordinator go
Unload(e) ==
    /\ setup[e] = "loaded"
    /\ hassData' = hassData \ {e}
    /\ setup' = [setup EXCEPT ![e] = "not_loaded"]
    /\ entities' = [entities EXCEPT ![e] = <<>>]
    /\ data' = [data EXCEPT ![e] = None]
    /\ last' = [NoOp EXCEPT !.op = "unload", !.entry = e]
    /\ UNCHANGED <<enFile, entries, flowResult, setupRaised>>

\* one configured meter, its entry made by the wizard from the shipped catalog
Init ==
    /\ enFile = FileGood
    /\ \E u \in {v \in UserInputs : (v.provider = "alpha") <=> (v.meter_id = 1)} :
          /\ flowResult = AsyncStepUser(FileGood, u)
          /\ entries = <<AsyncStepUser(FileGood, u).data>>
    /\ hassData = {}
    /\ setup = <<"not_loaded">>
    /\ setupRaised = <<"">>
    /\ data = <<None>>
    /\ entities = << <<>> >>
    /\ last = NoOp

Next ==
    \/ \E e \in 1..Len(entries), now \in Nows, http \in HttpOutcomes : SetupEntry(e, now, http)
    \/ \E e \in 1..Len(entries), now \in Nows, http \in HttpOutcomes : Poll(e, now, http)
    \/ \E e \in 1..Len(entries), i \in 1..Len(SensorList) : Read(e, i)
    \/ \E e \in 1..Len(entries) : Unload(e)

Spec == Init /\ [][Next]_vars

\* the wizard and the entries it makes, on any translations file
InitWizard ==
    /\ enFile \in Files
    /\ flowResult = FlowNone
    /\ entries = <<>>
    /\ hassData = {}
    /\ setup = <<>>
    /\ setupRaised = <<>>
    /\ data = <<>>
    /\ entities = <<>>
    /\ last = NoOp

NextWizard ==
    \/ \E u \in UserInputs \cup {NoInput} : StepUser(u)
    \/ \E e \in 1..Len(entries), now \in Nows, http \in SetupOutcomes : SetupEntry(e, now, http)
    \/ \E e \in 1..Len(entries) : Unload(e)

SpecWizard == InitWizard /\ [][NextWizard]_vars

(***************************************************************************)
(* Properties.                                                             *)
(***************************************************************************)
IsUpdate(o) == o.op \in {"setup", "poll"}

\* the response is a 200 whose body decodes to a non-empty list
GoodResponse(http) ==
    /\ http.transport = ""
    /\ http.status = 200
    /\ http.decode = ""
    /\ http.body.t = "list"
    /\ Len(http.body.items) > 0

Micros(dt) == (dt.minute * 60 + dt.second) * 1000000 + dt.microsecond

\* C1: an update whose response has a status other than 200, or a 200 whose
\* body is not a non-empty list or cannot be decoded, ends with UpdateFailed
C1_InvalidResponseRaisesUpdateFailed ==
    (IsUpdate(last) /\ last.http.transport = "" /\ ~GoodResponse(last.http))
        => last.raised = "UpdateFailed"

\* C2: an update whose transport fails, by connection error or by timeout,
\* ends with UpdateFailed
C2_TransportFailureRaisesUpdateFailed ==
    (IsUpdate(last) /\ last.http.transport # "") => last.raised = "UpdateFailed"

\* C3: the query window is one minute wide, its bounds are whole minutes, and
\* its end is the top of the minute before the current one: the last whole
\* minute that lies at least a minute before now
C3_WindowOneMinuteBeforeCurrentMinute ==
    IsUpdate(last) =>
        LET e == EndTime(last.now)
            s == StartTime(last.now)
        IN  /\ e.second = 0 /\ e.microsecond = 0
            /\ s.second = 0 /\ s.microsecond = 0
            /\ Micros(e) - Micros(s) = 60000000
            /\ Micros(e) + 60000000 <= Micros(last.now)
            /\ Micros(last.now) < Micros(e) + 120000000
            /\ last.url.start = [minute |-> s.minute, second |-> 0]
            /\ last.url.end = [minute |-> e.minute, second |-> 0]

C3_Witness ==
    /\ last.op = "poll"
    /\ last.now.second = 59
    /\ last.now.microsecond = 999999
    /\ last.url.end.minute = last.now.minute - 1

\* C4: a setup whose first refresh fails ends with ConfigEntryNotReady and
\* adds no entity; an entry that is not loaded has no entity
C4_FailedFirstRefreshNotReady ==
    \A e \in 1..Len(entries) :
        /\ (last.op = "setup" /\ last.entry = e /\ ~GoodResponse(last.http))
              => (setupRaised[e] = "ConfigEntryNotReady" /\ entities[e] = <<>>)
        /\ setup[e] # "loaded" => entities[e] = <<>>

C4_Witness ==
    /\ last.op = "setup"
    /\ last.raised = "UpdateFailed"
    /\ setupRaised[last.entry] = "ConfigEntryNotReady"
    /\ entities[last.entry] = <<>>

\* C5: on a snapshot that is a JSON object, no read of a projection's state
\* raises
C5_ProjectionNeverRaises ==
    (last.op = "read" /\ TypeAt(data[last.entry], <<>>) = "obj")
        => last.result.kind # "raise"

\* C6 as stated: on {"phaseOne": {"voltage": {"avg": 230.456}}} the
\* phaseOne-voltage-avg sensor reads 230.46 and the phaseOne-current-avg
\* sensor, whose measurement is absent, reads 0
C6_AbsentMeasurementReadsZero ==
    (last.op = "read" /\ data[last.entry] = SnapPhaseOne) =>
        /\ last.sensor = PhaseSensor("phaseOne", "voltage", "avg")
              => last.result = RValue(23046)
        /\ last.sensor = PhaseSensor("phaseOne", "current", "avg")
              => last.result = RValue(0)

\* C6 amended: on that snapshot the phaseOne-voltage-avg sensor reads 230.46,
\* the phaseOne-current-avg sensor, whose measurement is absent, reads None,
\* and 0 is read only where the measurement is present and its aggregation
\* is absent (phaseOne-voltage-min)
C6_AbsentMeasurementReadsNone ==
    (last.op = "read" /\ data[last.entry] = SnapPhaseOne) =>
        /\ last.sensor = PhaseSensor("phaseOne", "voltage", "avg")
              => last.result = RValue(23046)
        /\ last.sensor = PhaseSensor("phaseOne", "current", "avg")
              => last.result = RNone
        /\ last.sensor = PhaseSensor("phaseOne", "voltage", "min")
              => last.result = RValue(0)

C6_Witness ==
    /\ last.op = "read"
    /\ data[last.entry] = SnapPhaseOne
    /\ last.sensor = PhaseSensor("phaseOne", "current", "avg")
    /\ last.result = RNone

\* C7: every step leaves a coordinator's snapshot as it was, except that an
\* update answered by a non-empty list makes it the first element of that
\* list, whole, and an unload drops it
C7_SnapshotIsFirstElementOfLastGoodPoll ==
    [][\A e \in 1..Len(entries) :
          IF IsUpdate(last') /\ last'.entry = e /\ GoodResponse(last'.http)
              THEN data'[e] = last'.http.body.items[1]
          ELSE IF last'.op = "unload" /\ last'.entry = e
              THEN data'[e] = None
          ELSE data'[e] = data[e]]_vars

C7_Witness ==
    /\ last.op = "poll"
    /\ Len(last.http.body.items) > 1
    /\ last.http.body.items[1] # last.http.body.items[Len(last.http.body.items)]
    /\ data[last.entry] = last.http.body.items[1]

\* the translations file yields no catalog: it cannot be opened, parsed or
\* walked to "providers", or its providers are empty
NoCatalog(file) ==
    \/ file.open # ""
    \/ file.parse # ""
    \/ file.top # "obj"
    \/ file.config # "obj"
    \/ DOMAIN file.providers = {}

\* C8: when the catalog cannot be loaded or is empty, every step of the
\* wizard returns the form with base error no_providers and no entry is made
C8_NoCatalogShowsNoProviders ==
    NoCatalog(enFile) =>
        /\ flowResult.type # "none"
              => (flowResult.type = "form" /\ flowResult.base = "no_providers")
        /\ entries = <<>>

\* C9: a scheduled poll that fails leaves the snapshot as it was, and every
\* projection reads after it what it read before it
C9_FailedPollKeepsSnapshot ==
    [][(last'.op = "poll" /\ ~GoodResponse(last'.http)) =>
          /\ data'[last'.entry] = data[last'.entry]
          /\ \A s \in Sensors :
                SensorState(s, data'[last'.entry]) = SensorState(s, data[last'.entry])]_vars

C9_Witness ==
    /\ last.op = "poll"
    /\ last.raised = "UpdateFailed"
    /\ data[last.entry] = SnapFull
    /\ SensorState(PowerSensor("max", "kW"), data[last.entry]) = RValue(150)

\* C10: no two entities the integration has added share a unique id, within
\* an entry or across entries
C10_UniqueIdsDistinct ==
    \A e1, e2 \in 1..Len(entries) :
        \A i \in 1..Len(entities[e1]), j \in 1..Len(entities[e2]) :
            (e1 # e2 \/ i # j) => entities[e1][i] # entities[e2][j]

====
